---- MODULE Spec2Model ----
(***************************************************************************)
(* Layout engine of backend_dev_task: PanelFactory.BuildPanels,            *)
(* RafterFactory.BuildGrid, MountCalculator.CalculateMounts,               *)
(* JointCalculator.CalculateJoints and the orchestrating                   *)
(* LayoutCalculator.CalculateLayoutDetailed.                               *)
(*                                                                         *)
(* Numbers.  The program computes on Python floats.  The model computes on *)
(* exact decimals in fixed point: every length is an integer number of     *)
(* micro-units (1e-6), so 44.7 is 44700000, the 1e-6 slack of the range    *)
(* and span tests is 1, the default coordinate_tolerance 1e-4 is 100 and   *)
(* round(v, 4) rounds to a multiple of 100.  Binary representation error   *)
(* of the floats is not modelled.                                          *)
(***************************************************************************)
EXTENDS Integers, Sequences, FiniteSets, TLC

VARIABLES
  cfg,           \* LayoutConfig of the calculator (all five sections)
  specs,         \* the argument: sequence of coordinate specs
  pc,            \* position inside the running call
  panels,        \* local `panels` (a list of Panel)
  first_rafter,  \* BuildGrid local
  current,       \* BuildGrid local
  positions,     \* BuildGrid local / RafterGrid.positions
  mounts,        \* result.mounts
  joints,        \* result.joints
  raised,        \* exception class that left the call ("none" while running)
  error          \* which raise statement fired ("none" if none)

vars == <<cfg, specs, pc, panels, first_rafter, current, positions, mounts,
          joints, raised, error>>

---------------------------------------------------------------------------
(* Fixed-point helpers *)

\* whole.micro as a number of micro-units, e.g. Dec(44, 700000) is 44.7
Dec(whole, micro) == whole * 1000000 + micro

\* 1e-6, the slack of PositionsInRange and of the span test
Eps == 1

\* round(v, 4) keeps a multiple of 1e-4
RoundQuantum == 100

\* Python round(): nearest multiple of q, ties to the even multiple
RoundTo(v, q) ==
  LET r    == v % q
      base == v - r
  IN  IF 2 * r < q THEN base
      ELSE IF 2 * r > q THEN base + q
      ELSE IF (base \div q) % 2 = 0 THEN base ELSE base + q

Round4(v) == RoundTo(v, RoundQuantum)

\* round((a + b) / 2.0, 4), computed on a + b so that a half micro-unit is kept
RoundHalfSum4(s) == RoundTo(s, 2 * RoundQuantum) \div 2

Abs(v) == IF v < 0 THEN -v ELSE v

\* The two sort keys of the program: (y, x) for panels and joints
\* (layout_service.py:41, joints.py:39) and x for the panels of a row
\* (joints.py:28)
KeyLess(key, a, b) ==
  IF key = "yx" THEN a.y < b.y \/ (a.y = b.y /\ a.x < b.x)
  ELSE a.x < b.x

\* list.sort(key=...) / sorted(): stable, here by insertion
RECURSIVE InsertSorted(_, _, _)
InsertSorted(s, e, key) ==
  IF s = <<>> THEN <<e>>
  ELSE IF KeyLess(key, e, s[Len(s)])
       THEN Append(InsertSorted(SubSeq(s, 1, Len(s) - 1), e, key), s[Len(s)])
       ELSE Append(s, e)

RECURSIVE StableSort(_, _)
StableSort(s, key) ==
  IF s = <<>> THEN <<>>
  ELSE InsertSorted(StableSort(SubSeq(s, 1, Len(s) - 1), key), s[Len(s)], key)

---------------------------------------------------------------------------
(* models.py *)

Panel(x, y, width, height) == [x |-> x, y |-> y, width |-> width, height |-> height]

RightEdge(panel) == panel.x + panel.width

BottomEdge(panel) == panel.y + panel.height

Mount(x, y) == [x |-> x, y |-> y]

Joint(x, y) == [x |-> x, y |-> y]

---------------------------------------------------------------------------
(* config.py: the defaults of the settings dataclasses *)

DefaultWidth == Dec(44, 700000)
DefaultHeight == Dec(71, 100000)
DefaultSpacing == Dec(16, 0)
DefaultRafterClearance == Dec(2, 0)
DefaultSpanLimit == Dec(48, 0)
DefaultCantileverLimit == Dec(16, 0)
DefaultMountClearance == Dec(2, 0)
DefaultGapThreshold == Dec(1, 0)
DefaultVerticalTolerance == Dec(0, 500000)
DefaultCoordinateTolerance == Dec(0, 100)

DefaultConfig ==
  [ width |-> DefaultWidth, height |-> DefaultHeight,
    spacing |-> DefaultSpacing, rafter_clearance |-> DefaultRafterClearance,
    span_limit |-> DefaultSpanLimit, cantilever_limit |-> DefaultCantileverLimit,
    mount_clearance |-> DefaultMountClearance,
    horizontal_gap_threshold |-> DefaultGapThreshold,
    vertical_tolerance |-> DefaultVerticalTolerance,
    allow_negative_coordinates |-> FALSE, allow_duplicates |-> FALSE,
    allow_overlaps |-> FALSE, coordinate_tolerance |-> DefaultCoordinateTolerance ]

\* ValidationSettings.__post_init__ is the only check the configuration model makes
ConfigAccepted(c) == c.coordinate_tolerance > 0

---------------------------------------------------------------------------
(* layout_service.py: PanelFactory *)

\* TRUE when _ValidateCoordinateBounds raises
ValidateCoordinateBounds(validation, x_value, y_value, tolerance) ==
  IF validation.allow_negative_coordinates THEN FALSE
  ELSE x_value < -tolerance \/ y_value < -tolerance

\* QuantizeCoordinate without the quantization: the raw coordinates as the key
QuantizeCoordinateRaw(x_value, y_value, tolerance) == <<x_value, y_value>>

\* scale = max(tolerance, 1e-9): 1e-9 is below one micro-unit and the
\* tolerance is at least one, so the scale is the tolerance
QuantizeCoordinate(x_value, y_value, tolerance) ==
  LET scale == tolerance
  IN  <<RoundTo(x_value, scale) \div scale, RoundTo(y_value, scale) \div scale>>

\* RectanglesOverlap with the tolerance forgotten
RectanglesOverlapNoTolerance(first, second, tolerance) ==
  LET separated_horizontally ==
        \/ RightEdge(first) <= second.x
        \/ RightEdge(second) <= first.x
      separated_vertically ==
        \/ BottomEdge(first) <= second.y
        \/ BottomEdge(second) <= first.y
  IN  ~(separated_horizontally \/ separated_vertically)

RectanglesOverlap(first, second, tolerance) ==
  LET separated_horizontally ==
        \/ RightEdge(first) <= second.x + tolerance
        \/ RightEdge(second) <= first.x + tolerance
      separated_vertically ==
        \/ BottomEdge(first) <= second.y + tolerance
        \/ BottomEdge(second) <= first.y + tolerance
  IN  ~(separated_horizontally \/ separated_vertically)

\* TRUE when _ValidateNoOverlap raises
ValidateNoOverlap(ps, tolerance) ==
  \E index \in 1..Len(ps) : \E other \in (index + 1)..Len(ps) :
    RectanglesOverlap(ps[index], ps[other], tolerance)

\* the for loop of BuildPanels from spec number i on
RECURSIVE BuildLoop(_, _, _, _, _)
BuildLoop(c, items, i, built, seen_positions) ==
  IF i > Len(items) THEN [error |-> "none", panels |-> built]
  ELSE
    LET item == items[i]
        tolerance == c.coordinate_tolerance
    IN  IF ~({"x", "y"} \subseteq item.keys)
        THEN [error |-> "MissingCoordinate", panels |-> <<>>]
        ELSE IF ValidateCoordinateBounds(c, item.x, item.y, tolerance)
        THEN [error |-> "NegativeCoordinate", panels |-> <<>>]
        ELSE IF ~c.allow_duplicates
                /\ QuantizeCoordinate(item.x, item.y, tolerance) \in seen_positions
        THEN [error |-> "DuplicatePanel", panels |-> <<>>]
        ELSE BuildLoop(c, items, i + 1,
                       Append(built, Panel(item.x, item.y, c.width, c.height)),
                       IF c.allow_duplicates THEN seen_positions
                       ELSE seen_positions
                            \cup {QuantizeCoordinate(item.x, item.y, tolerance)})

\* BuildPanels with the overlap validation run ahead of the per-spec checks
BuildPanelsOverlapFirst(c, items) ==
  LET every == [i \in 1..Len(items) |->
                  Panel(items[i].x, items[i].y, c.width, c.height)]
      loop == BuildLoop(c, items, 1, <<>>, {})
  IN  IF ~c.allow_overlaps /\ ValidateNoOverlap(every, c.coordinate_tolerance)
      THEN [error |-> "OverlappingPanels", panels |-> <<>>]
      ELSE IF loop.error # "none" THEN loop
      ELSE [error |-> "none", panels |-> StableSort(loop.panels, "yx")]

BuildPanels(c, items) ==
  LET loop == BuildLoop(c, items, 1, <<>>, {})
  IN  IF loop.error # "none" THEN loop
      ELSE IF ~c.allow_overlaps /\ ValidateNoOverlap(loop.panels, c.coordinate_tolerance)
      THEN [error |-> "OverlappingPanels", panels |-> <<>>]
      ELSE [error |-> "none", panels |-> StableSort(loop.panels, "yx")]

---------------------------------------------------------------------------
(* rafters.py *)

\* PositionsInRange with open bounds and no slack
PositionsInRangeOpen(grid, start_x, end_x) ==
  SelectSeq(grid, LAMBDA value : start_x < value /\ value < end_x)

\* RafterGrid.PositionsInRange
PositionsInRange(grid, start_x, end_x) ==
  SelectSeq(grid, LAMBDA value : start_x - Eps <= value /\ value <= end_x + Eps)

\* min_x and max_x as CalculateLayoutDetailed passes them to BuildGrid
MinX(ps) == CHOOSE v \in {ps[i].x : i \in 1..Len(ps)} :
              \A i \in 1..Len(ps) : v <= ps[i].x

MaxX(ps) == CHOOSE v \in {RightEdge(ps[i]) : i \in 1..Len(ps)} :
              \A i \in 1..Len(ps) : v >= RightEdge(ps[i])

\* the condition of the first while loop of BuildGrid
BackwardCondition(first, spacing, min_x) ==
  first - spacing > min_x - spacing * 2

\* the bound of the second while loop one spacing short
ForwardLimitOneSpacing(spacing, max_x) == max_x + spacing

\* limit = max_x + self.spacing * 2, the bound of the second while loop
ForwardLimit(spacing, max_x) == max_x + spacing * 2

---------------------------------------------------------------------------
(* mounts.py *)

\* SpanExceeded with the list zipped with itself instead of its tail
SpanExceededSelfZip(rafters, span_limit) ==
  \E i \in 1..Len(rafters) : rafters[i] - rafters[i] > span_limit + Eps

\* the span loop of _CalculatePanelMounts: TRUE when it raises
SpanExceeded(rafters, span_limit) ==
  \E i \in 1..(Len(rafters) - 1) : rafters[i + 1] - rafters[i] > span_limit + Eps

\* PanelMountRows with the bottom row forgotten
PanelMountTopRow(panel, rafters) ==
  [i \in 1..Len(rafters) |-> Mount(rafters[i], panel.y)]

\* the two rows of mounts of one panel: top row, then bottom row
PanelMountRows(panel, rafters) ==
  [i \in 1..Len(rafters) |-> Mount(rafters[i], panel.y)]
  \o [i \in 1..Len(rafters) |-> Mount(rafters[i], BottomEdge(panel))]

CalculatePanelMounts(c, panel, grid) ==
  LET allowed_start == panel.x + c.mount_clearance
      allowed_end   == RightEdge(panel) - c.mount_clearance
      rafters       == PositionsInRange(grid, allowed_start, allowed_end)
  IN  IF rafters = <<>>
      THEN [error |-> "NoRafterInSpan", mounts |-> <<>>]
      ELSE IF rafters[1] - panel.x - c.mount_clearance > c.cantilever_limit
      THEN [error |-> "LeftCantileverExceeded", mounts |-> <<>>]
      ELSE IF RightEdge(panel) - c.mount_clearance - rafters[Len(rafters)]
                > c.cantilever_limit
      THEN [error |-> "RightCantileverExceeded", mounts |-> <<>>]
      ELSE IF SpanExceeded(rafters, c.span_limit)
      THEN [error |-> "SpanLimitExceeded", mounts |-> <<>>]
      ELSE [error |-> "none", mounts |-> PanelMountRows(panel, rafters)]

\* the loop of CalculateMounts from panel number i on
RECURSIVE MountLoop(_, _, _, _, _)
MountLoop(c, ps, grid, i, acc) ==
  IF i > Len(ps) THEN [error |-> "none", mounts |-> acc]
  ELSE LET one == CalculatePanelMounts(c, ps[i], grid)
       IN  IF one.error # "none" THEN one
           ELSE MountLoop(c, ps, grid, i + 1, acc \o one.mounts)

CalculateMounts(c, ps, grid) == MountLoop(c, ps, grid, 1, <<>>)

---------------------------------------------------------------------------
(* joints.py.  A dict is a sequence of entries in insertion order. *)

\* _FindRowKey: the first key of row_map within tolerance, else y_value
FindRowKey(row_map, y_value, tolerance) ==
  IF \E i \in 1..Len(row_map) : Abs(row_map[i].key - y_value) <= tolerance
  THEN LET first == CHOOSE i \in 1..Len(row_map) :
                      /\ Abs(row_map[i].key - y_value) <= tolerance
                      /\ \A j \in 1..(i - 1) :
                           Abs(row_map[j].key - y_value) > tolerance
       IN  row_map[first].key
  ELSE y_value

\* row_map.setdefault(row_key, []).append(panel)
AddToRow(row_map, row_key, panel) ==
  IF \E i \in 1..Len(row_map) : row_map[i].key = row_key
  THEN [i \in 1..Len(row_map) |->
          IF row_map[i].key = row_key
          THEN [key |-> row_key, panels |-> Append(row_map[i].panels, panel)]
          ELSE row_map[i]]
  ELSE Append(row_map, [key |-> row_key, panels |-> <<panel>>])

\* the first loop of CalculateJoints
RECURSIVE GroupRows(_, _, _, _)
GroupRows(ps, tolerance, i, row_map) ==
  IF i > Len(ps) THEN row_map
  ELSE GroupRows(ps, tolerance, i + 1,
                 AddToRow(row_map, FindRowKey(row_map, ps[i].y, tolerance), ps[i]))

\* SeamSuppressed with > for >=
SeamSuppressedStrict(gap, threshold) == gap > threshold

\* if gap >= self.horizontal_gap_threshold: continue
SeamSuppressed(gap, threshold) == gap >= threshold

\* PutJoint into a list instead of a dict: nothing is merged
PutJointAppend(dict, joint) == Append(dict, joint)

\* joints[(joint.x, joint.y)] = joint: a key already present keeps its place
PutJoint(dict, joint) ==
  IF \E i \in 1..Len(dict) : dict[i] = joint THEN dict ELSE Append(dict, joint)

\* SortRow with the sort forgotten
SortRowOmitted(row_panels) == row_panels

\* row_panels.sort(key=lambda panel: panel.x)
SortRow(row_panels) == StableSort(row_panels, "x")

\* the inner loop of CalculateJoints over the adjacent pairs of one sorted row
RECURSIVE PairLoop(_, _, _, _, _)
PairLoop(c, row_key, row, i, dict) ==
  IF i >= Len(row) THEN dict
  ELSE
    LET left  == row[i]
        right == row[i + 1]
        gap   == right.x - RightEdge(left)
        seam  == RoundHalfSum4(RightEdge(left) + right.x)
        top_joint    == Joint(seam, Round4(row_key))
        bottom_joint == Joint(seam, Round4(row_key + left.height))
    IN  IF SeamSuppressed(gap, c.horizontal_gap_threshold)
        THEN PairLoop(c, row_key, row, i + 1, dict)
        ELSE PairLoop(c, row_key, row, i + 1,
                      PutJoint(PutJoint(dict, top_joint), bottom_joint))

\* the outer loop of CalculateJoints over row_map.items()
RECURSIVE RowLoop(_, _, _, _)
RowLoop(c, row_map, k, dict) ==
  IF k > Len(row_map) THEN dict
  ELSE RowLoop(c, row_map, k + 1,
               PairLoop(c, row_map[k].key, SortRow(row_map[k].panels), 1, dict))

\* CalculateJoints with the default threshold in place of the configured one
CalculateJointsDefaultThreshold(c, ps) ==
  StableSort(RowLoop([c EXCEPT !.horizontal_gap_threshold = DefaultGapThreshold],
                     GroupRows(ps, c.vertical_tolerance, 1, <<>>), 1, <<>>), "yx")

CalculateJoints(c, ps) ==
  StableSort(RowLoop(c, GroupRows(ps, c.vertical_tolerance, 1, <<>>), 1, <<>>), "yx")

---------------------------------------------------------------------------
(* Inputs: the configurations and the spec sequences a call is made with *)

\* longest spec sequence drawn from Points
MaxPanels == 3

Item(x, y) == [keys |-> {"x", "y"}, x |-> x, y |-> y]

\* a spec without its "y" key, as in test_missing_coordinate_raises
MissingY == [keys |-> {"x"}, x |-> 0, y |-> 0]

Points ==
  { Item(0, 0),
    Item(Dec(44, 700000), 0),              \* abuts (0, 0)
    Item(Dec(45, 700000), 0),              \* gap of exactly 1.0 to (0, 0)
    Item(Dec(10, 0), 0),                   \* overlaps (0, 0)
    Item(0, Dec(71, 100000)),              \* the row below (0, 0)
    Item(Dec(49, 0), 0),
    Item(Dec(0, 40), 0),                   \* 0.00004: below the tolerance
    Item(Dec(0, 60), 0),                   \* 0.00006: below the tolerance
    Item(Dec(-1, 0), 0),
    MissingY }

\* tests/test_layout.py SamplePanels, cli.py LoadSamplePanels
SamplePanels ==
  << Item(0, 0), Item(Dec(45, 50000), 0), Item(Dec(90, 100000), 0),
     Item(0, Dec(71, 600000)), Item(Dec(135, 150000), 0),
     Item(Dec(135, 150000), Dec(71, 600000)), Item(0, Dec(143, 200000)),
     Item(Dec(45, 50000), Dec(143, 200000)),
     Item(Dec(135, 150000), Dec(143, 200000)),
     Item(Dec(90, 100000), Dec(143, 200000)) >>

\* tests/test_layout.py test_shared_joint_created_once
GridPanels ==
  << Item(0, 0), Item(Dec(44, 700000), 0), Item(0, Dec(71, 100000)),
     Item(Dec(44, 700000), Dec(71, 100000)) >>

\* tests/test_layout.py test_panel_without_available_rafter_raises
LonePanel == << Item(Dec(3, 0), 0) >>

\* a spec one tolerance left of the origin, then one in the same cell that is
\* also beyond the tolerance: negative and duplicate at once
BoundaryPair == << Item(-Dec(0, 100), 0), Item(-Dec(0, 140), 0) >>

\* a spec without its "y" key whose x is negative
MissingAndNegative == << [keys |-> {"x"}, x |-> -Dec(1, 0), y |-> 0] >>

Inputs ==
  UNION {[1..n -> Points] : n \in 0..MaxPanels}
  \cup {SamplePanels, GridPanels, LonePanel, BoundaryPair, MissingAndNegative}

\* the default configuration and the settings the tests and the claims vary
Configs ==
  { DefaultConfig,
    [DefaultConfig EXCEPT !.spacing = Dec(200, 0)],
    [DefaultConfig EXCEPT !.spacing = 0],
    [DefaultConfig EXCEPT !.spacing = Dec(16, 30)],       \* 16.00003
    [DefaultConfig EXCEPT !.rafter_clearance = 0],
    [DefaultConfig EXCEPT !.rafter_clearance = Dec(2, 30),  \* 2.00003 for both
                          !.mount_clearance = Dec(2, 30)],
    [DefaultConfig EXCEPT !.rafter_clearance = Dec(2, 30),
                          !.mount_clearance = Dec(2, 30),
                          !.cantilever_limit = Dec(10, 0)],
    [DefaultConfig EXCEPT !.width = Dec(-1, 0)],
    [DefaultConfig EXCEPT !.span_limit = Dec(10, 0)],
    [DefaultConfig EXCEPT !.cantilever_limit = Dec(10, 0)],
    [DefaultConfig EXCEPT !.mount_clearance = Dec(22, 0)],
    [DefaultConfig EXCEPT !.horizontal_gap_threshold = 0],
    [DefaultConfig EXCEPT !.vertical_tolerance = 0],
    [DefaultConfig EXCEPT !.allow_negative_coordinates = TRUE],
    [DefaultConfig EXCEPT !.allow_duplicates = TRUE],
    [DefaultConfig EXCEPT !.allow_overlaps = TRUE],
    [DefaultConfig EXCEPT !.allow_duplicates = TRUE, !.allow_overlaps = TRUE] }

---------------------------------------------------------------------------
(* LayoutCalculator.CalculateLayoutDetailed, one call *)

Init ==
  /\ cfg \in {c \in Configs : ConfigAccepted(c)}
  /\ specs \in Inputs
  /\ pc = "BuildPanels"
  /\ panels = <<>>
  /\ first_rafter = 0
  /\ current = 0
  /\ positions = <<>>
  /\ mounts = <<>>
  /\ joints = <<>>
  /\ raised = "none"
  /\ error = "none"

\* raise LayoutValidationError(...) / raise ValueError(...): the call ends
Raise(class, which) ==
  /\ pc' = "raised"
  /\ raised' = class
  /\ error' = which

\* layout_service.py:104-106
CallBuildPanels ==
  /\ pc = "BuildPanels"
  /\ LET built == BuildPanels(cfg, specs)
     IN  IF built.error # "none"
         THEN /\ Raise("LayoutValidationError", built.error)
              /\ UNCHANGED panels
         ELSE IF built.panels = <<>>
         THEN /\ Raise("LayoutValidationError", "NoPanels")
              /\ UNCHANGED panels
         ELSE /\ panels' = built.panels
              /\ pc' = "BuildGrid"
              /\ UNCHANGED <<raised, error>>
  /\ UNCHANGED <<cfg, specs, first_rafter, current, positions, mounts, joints>>

\* EnterBuildGrid with the walk started at min_x, the edge clearance left out
EnterBuildGridAtMinX ==
  /\ pc = "BuildGrid"
  /\ IF MinX(panels) > MaxX(panels)
     THEN /\ Raise("ValueError", "MinExceedsMax")
          /\ UNCHANGED first_rafter
     ELSE /\ first_rafter' = MinX(panels)
          /\ pc' = "backward"
          /\ UNCHANGED <<raised, error>>
  /\ UNCHANGED <<cfg, specs, panels, current, positions, mounts, joints>>

\* layout_service.py:107-109 and rafters.py:21-23
EnterBuildGrid ==
  /\ pc = "BuildGrid"
  /\ IF MinX(panels) > MaxX(panels)
     THEN /\ Raise("ValueError", "MinExceedsMax")
          /\ UNCHANGED first_rafter
     ELSE /\ first_rafter' = MinX(panels) + cfg.rafter_clearance
          /\ pc' = "backward"
          /\ UNCHANGED <<raised, error>>
  /\ UNCHANGED <<cfg, specs, panels, current, positions, mounts, joints>>

\* rafters.py:24, the test of the first while loop holds.  Test and body are
\* two steps, so that an iteration that changes no variable is a step too.
BackwardTest ==
  /\ pc = "backward"
  /\ BackwardCondition(first_rafter, cfg.spacing, MinX(panels))
  /\ pc' = "backward_body"
  /\ UNCHANGED <<cfg, specs, panels, first_rafter, current, positions, mounts,
                 joints, raised, error>>

\* rafters.py:25, the body of the first while loop
BackwardStep ==
  /\ pc = "backward_body"
  /\ first_rafter' = first_rafter - cfg.spacing
  /\ pc' = "backward"
  /\ UNCHANGED <<cfg, specs, panels, current, positions, mounts, joints,
                 raised, error>>

\* rafters.py:24 (the test fails) and 26-28
BackwardExit ==
  /\ pc = "backward"
  /\ ~BackwardCondition(first_rafter, cfg.spacing, MinX(panels))
  /\ positions' = <<>>
  /\ current' = first_rafter
  /\ pc' = "forward"
  /\ UNCHANGED <<cfg, specs, panels, first_rafter, mounts, joints, raised, error>>

\* rafters.py:29-31, one iteration of the second while loop: test and body
ForwardStep ==
  /\ pc = "forward"
  /\ current <= ForwardLimit(cfg.spacing, MaxX(panels))
  /\ positions' = Append(positions, Round4(current))
  /\ current' = current + cfg.spacing
  /\ UNCHANGED <<cfg, specs, pc, panels, first_rafter, mounts, joints, raised, error>>

\* rafters.py:29 (the test fails) and 32
ForwardExit ==
  /\ pc = "forward"
  /\ current > ForwardLimit(cfg.spacing, MaxX(panels))
  /\ pc' = "CalculateMounts"
  /\ UNCHANGED <<cfg, specs, panels, first_rafter, current, positions, mounts,
                 joints, raised, error>>

\* layout_service.py:110
CallCalculateMounts ==
  /\ pc = "CalculateMounts"
  /\ LET got == CalculateMounts(cfg, panels, positions)
     IN  IF got.error # "none"
         THEN /\ Raise("LayoutValidationError", got.error)
              /\ UNCHANGED mounts
         ELSE /\ mounts' = got.mounts
              /\ pc' = "CalculateJoints"
              /\ UNCHANGED <<raised, error>>
  /\ UNCHANGED <<cfg, specs, panels, first_rafter, current, positions, joints>>

\* layout_service.py:111-113
CallCalculateJoints ==
  /\ pc = "CalculateJoints"
  /\ joints' = CalculateJoints(cfg, panels)
  /\ pc' = "returned"
  /\ UNCHANGED <<cfg, specs, panels, first_rafter, current, positions, mounts,
                 raised, error>>

Next ==
  \/ CallBuildPanels
  \/ EnterBuildGrid
  \/ BackwardTest
  \/ BackwardStep
  \/ BackwardExit
  \/ ForwardStep
  \/ ForwardExit
  \/ CallCalculateMounts
  \/ CallCalculateJoints

Spec == Init /\ [][Next]_vars

---------------------------------------------------------------------------
(* JointCalculator.CalculateJoints called on its own, on any panel sequence *)

\* longest panel sequence of a direct call
MaxJointPanels == 4

JointPoints ==
  { Item(0, 0),
    Item(Dec(44, 700000), 0),
    Item(Dec(45, 700000), 0),
    Item(Dec(10, 0), 0),
    Item(0, Dec(71, 100000)),
    Item(Dec(44, 700000), Dec(71, 100000)),
    Item(Dec(44, 700000), Dec(0, 300000)) } \* y within vertical_tolerance of 0

JointConfigs ==
  { DefaultConfig,
    [DefaultConfig EXCEPT !.horizontal_gap_threshold = 0],
    [DefaultConfig EXCEPT !.vertical_tolerance = 0] }

\* the panels of a sequence of positions, all of the configured size
PanelsAt(c, items) ==
  [i \in 1..Len(items) |-> Panel(items[i].x, items[i].y, c.width, c.height)]

InitJoints ==
  /\ cfg \in JointConfigs
  /\ specs = <<>>
  /\ pc = "CalculateJoints"
  /\ panels \in {PanelsAt(cfg, items) :
                   items \in UNION {[1..n -> JointPoints] : n \in 0..MaxJointPanels}}
  /\ first_rafter = 0
  /\ current = 0
  /\ positions = <<>>
  /\ mounts = <<>>
  /\ joints = <<>>
  /\ raised = "none"
  /\ error = "none"

\* two neighbours of a sequence exchanged
Swapped(s, i) ==
  [k \in 1..Len(s) |-> IF k = i THEN s[i + 1] ELSE IF k = i + 1 THEN s[i] ELSE s[k]]

\* joints.py:21-39 once more: the caller passes the same panels in another order
Reorder ==
  /\ pc \in {"returned", "recalled"}
  /\ \E i \in 1..(Len(panels) - 1) :
       /\ panels' = Swapped(panels, i)
       /\ joints' = CalculateJoints(cfg, Swapped(panels, i))
  /\ pc' = "recalled"
  /\ UNCHANGED <<cfg, specs, first_rafter, current, positions, mounts, raised, error>>

NextJoints ==
  \/ CallCalculateJoints
  \/ Reorder

SpecJoints == InitJoints /\ [][NextJoints]_vars

---------------------------------------------------------------------------
(* Vocabulary of the properties *)

Range(s) == {s[i] : i \in DOMAIN s}

MountErrors ==
  {"NoRafterInSpan", "LeftCantileverExceeded", "RightCantileverExceeded",
   "SpanLimitExceeded"}

\* CalculateMounts has returned its list
MountsReturned == pc \in {"CalculateJoints", "returned"}

\* CalculateMounts has raised
MountsRaised == pc = "raised" /\ error \in MountErrors

\* the grid positions inside the window of panel p, as a set
Under(p) ==
  {r \in Range(positions) :
     /\ r >= p.x + cfg.mount_clearance - Eps
     /\ r <= RightEdge(p) - cfg.mount_clearance + Eps}

\* the structural limits of one panel against the grid
WithinLimits(p) ==
  /\ Under(p) # {}
  /\ \A r \in Under(p) :
       \/ \E q \in Under(p) : q < r
       \/ r - p.x - cfg.mount_clearance <= cfg.cantilever_limit
  /\ \A r \in Under(p) :
       \/ \E q \in Under(p) : q > r
       \/ RightEdge(p) - cfg.mount_clearance - r <= cfg.cantilever_limit
  /\ \A r, q \in Under(p) :
       (r < q /\ ~\E m \in Under(p) : r < m /\ m < q)
         => q - r <= cfg.span_limit + Eps

\* C1: when CalculateMounts returns, every panel has a rafter in its window,
\* both cantilevers within cantilever_limit and consecutive rafters at most
\* span_limit + 1e-6 apart; when it raises, some panel breaks one of these
\* limits, the error is a LayoutValidationError and no mount is returned.
C1_MountsRespectLimits ==
  /\ MountsReturned => \A i \in 1..Len(panels) : WithinLimits(panels[i])
  /\ MountsRaised =>
       /\ \E i \in 1..Len(panels) : ~WithinLimits(panels[i])
       /\ raised = "LayoutValidationError"
       /\ mounts = <<>>

\* a layout of several panels whose mounts were returned
C1_Witness ==
  /\ pc = "returned"
  /\ Len(panels) >= 2
  /\ mounts # <<>>
  /\ cfg.span_limit = Dec(10, 0) \/ cfg.cantilever_limit = Dec(10, 0)

\* number of mounts of the panels before panel i
RECURSIVE MountOffset(_)
MountOffset(i) ==
  IF i <= 1 THEN 0
  ELSE MountOffset(i - 1) + 2 * Cardinality(Under(panels[i - 1]))

\* the mounts of panel i inside the returned list
MountsOf(i) ==
  SubSeq(mounts, MountOffset(i) + 1,
         MountOffset(i) + 2 * Cardinality(Under(panels[i])))

\* C2: the mount list of a successful layout is, panel after panel in (y, x)
\* order, one mount at (r, y) and one at (r, BottomEdge) for every grid
\* position r under the panel, nothing merged across panels: MountCount is
\* twice the sum of the rafters under each panel.
C2_MountsPerPanel ==
  MountsReturned =>
    /\ \A i, j \in 1..Len(panels) :
         i < j => \/ panels[i].y < panels[j].y
                  \/ panels[i].y = panels[j].y /\ panels[i].x <= panels[j].x
    /\ Len(mounts) = MountOffset(Len(panels) + 1)
    /\ \A i \in 1..Len(panels) :
         LET own == MountsOf(i)
             under == Under(panels[i])
         IN  /\ Range(own) = {Mount(r, panels[i].y) : r \in under}
                              \cup {Mount(r, BottomEdge(panels[i])) : r \in under}
             /\ Len(own) = 2 * Cardinality(under)
    /\ \A m \in Range(mounts) :
         /\ m.x \in Range(positions)
         /\ m.y \in {panels[i].y : i \in 1..Len(panels)}
                    \cup {BottomEdge(panels[i]) : i \in 1..Len(panels)}

\* a returned layout in which two panels contributed the same mount point
C2_Witness ==
  /\ pc = "returned"
  /\ \E a, b \in 1..Len(mounts) : a # b /\ mounts[a] = mounts[b]

\* spec number i has both keys
HasCoordinates(i) == {"x", "y"} \subseteq specs[i].keys

\* v rounds to k times the tolerance (ties go to the even multiple)
RoundsTo(v, k, tolerance) ==
  LET d == Abs(v - k * tolerance)
  IN  2 * d < tolerance \/ (2 * d = tolerance /\ k % 2 = 0)

\* a and b round to the same multiple of the tolerance
SameCell(a, b, tolerance) ==
  \E k \in {a \div tolerance, a \div tolerance + 1} :
    RoundsTo(a, k, tolerance) /\ RoundsTo(b, k, tolerance)

\* spec number i has a coordinate below -tolerance
IsNegative(i) ==
  \/ specs[i].x < -cfg.coordinate_tolerance
  \/ specs[i].y < -cfg.coordinate_tolerance

\* specs number i and j round to the same cell in x and in y
SamePosition(i, j) ==
  /\ SameCell(specs[i].x, specs[j].x, cfg.coordinate_tolerance)
  /\ SameCell(specs[i].y, specs[j].y, cfg.coordinate_tolerance)

\* spec number i violates a per-spec rule: a key is missing, a coordinate is
\* negative beyond the tolerance, or an earlier spec has its quantized position
PerSpecViolation(i) ==
  \/ ~HasCoordinates(i)
  \/ ~cfg.allow_negative_coordinates /\ IsNegative(i)
  \/ /\ ~cfg.allow_duplicates
     /\ \E j \in 1..(i - 1) : HasCoordinates(j) /\ SamePosition(j, i)

\* two rectangles of the configured size at (ax, ay) and (bx, by) are separated
Separated(ax, ay, bx, by) ==
  \/ ax + cfg.width <= bx + cfg.coordinate_tolerance
  \/ bx + cfg.width <= ax + cfg.coordinate_tolerance
  \/ ay + cfg.height <= by + cfg.coordinate_tolerance
  \/ by + cfg.height <= ay + cfg.coordinate_tolerance

\* BuildPanels has just returned or raised
BuildPanelsDone ==
  \/ pc = "BuildGrid"
  \/ pc = "raised" /\ error \in {"MissingCoordinate", "NegativeCoordinate",
                                  "DuplicatePanel", "OverlappingPanels", "NoPanels"}

\* C3: with allow_overlaps = false and no per-spec violation, BuildPanels
\* raises the overlapping-panels error exactly when some pair of panels is
\* not separated within coordinate_tolerance, so every list it returns is
\* pairwise separated.
C3_OverlapIffNotSeparated ==
  (BuildPanelsDone /\ ~cfg.allow_overlaps
     /\ \A i \in 1..Len(specs) : ~PerSpecViolation(i)) =>
    /\ (pc = "raised" /\ error = "OverlappingPanels")
         <=> \E i, j \in 1..Len(specs) :
               i < j /\ ~Separated(specs[i].x, specs[i].y, specs[j].x, specs[j].y)
    /\ \A i, j \in 1..Len(panels) :
         i # j => Separated(panels[i].x, panels[i].y, panels[j].x, panels[j].y)

\* three panels accepted only thanks to the tolerance: the first ends
\* 0.00004 past the start of the second
C3_Witness ==
  /\ pc = "BuildGrid"
  /\ ~cfg.allow_overlaps
  /\ Len(panels) = 3
  /\ \E i, j \in 1..Len(panels) :
       /\ RightEdge(panels[i]) > panels[j].x
       /\ RightEdge(panels[i]) <= panels[j].x + cfg.coordinate_tolerance
       /\ panels[i].y = panels[j].y

\* CalculateJoints has returned
JointsReturned == pc \in {"returned", "recalled"}

\* the joints the pair (row[i], row[i + 1]) of a row contributes: both seam
\* points when the gap is below the threshold, none otherwise
SeamJoints(row_key, row, i) ==
  LET left  == row[i]
      right == row[i + 1]
      seam  == RoundHalfSum4(RightEdge(left) + right.x)
  IN  IF right.x - RightEdge(left) < cfg.horizontal_gap_threshold
      THEN {Joint(seam, Round4(row_key)), Joint(seam, Round4(row_key + left.height))}
      ELSE {}

\* C4: the joints are exactly the top and bottom seam points of the x-adjacent
\* pairs of each row whose gap is strictly below horizontal_gap_threshold; a
\* gap equal to the threshold or larger gives none.
C4_JointIffGapBelowThreshold ==
  JointsReturned =>
    LET row_map == GroupRows(panels, cfg.vertical_tolerance, 1, <<>>)
    IN  Range(joints) =
          UNION { UNION { SeamJoints(row_map[k].key, SortRow(row_map[k].panels), i) :
                            i \in 1..(Len(row_map[k].panels) - 1) } :
                    k \in 1..Len(row_map) }

\* a returned list with a seam, from panels one pair of which is exactly
\* horizontal_gap_threshold apart in the same row
C4_Witness ==
  /\ JointsReturned
  /\ joints # <<>>
  /\ \E i, j \in 1..Len(panels) :
       /\ panels[i].y = panels[j].y
       /\ panels[j].x - RightEdge(panels[i]) = cfg.horizontal_gap_threshold
       /\ \A k \in 1..Len(panels) :
            ~(panels[i].x < panels[k].x /\ panels[k].x < panels[j].x)
       /\ \A m \in Range(joints) :
            2 * m.x # RightEdge(panels[i]) + panels[j].x

\* C5: the returned joints are strictly ascending by (y, x), so no (x, y)
\* occurs twice; the four panels of a 2x2 block at exact panel offsets (with
\* a positive gap threshold) give 3 joints, the shared point once.
C5_JointsUniqueAndSorted ==
  JointsReturned =>
    /\ \A i \in 1..(Len(joints) - 1) :
         \/ joints[i].y < joints[i + 1].y
         \/ joints[i].y = joints[i + 1].y /\ joints[i].x < joints[i + 1].x
    /\ ( /\ Len(panels) = 4
         /\ Range(panels) = Range(PanelsAt(cfg, GridPanels))
         /\ cfg.horizontal_gap_threshold > 0 )
         => /\ Len(joints) = 3
            /\ Joint(cfg.width, cfg.height) \in Range(joints)

\* the 2x2 block joined: its middle seam point is there once
C5_Witness ==
  /\ JointsReturned
  /\ Len(panels) = 4
  /\ Range(panels) = Range(PanelsAt(cfg, GridPanels))
  /\ Len(joints) = 3

\* any two panels are level or more than vertical_tolerance apart in y
RowsUnambiguous ==
  \A i, j \in 1..Len(panels) :
    \/ panels[i].y = panels[j].y
    \/ Abs(panels[i].y - panels[j].y) > cfg.vertical_tolerance

\* C6 as stated: a call on a reordered sequence returns the same joints,
\* whatever the vertical_tolerance and the panels.
C6_AnyOrderSameJoints ==
  [][pc' = "recalled" => joints' = joints]_vars

\* C6 amended: a call on a reordered sequence returns the same joints when
\* any two panels are level or more than vertical_tolerance apart in y.
C6_SameJointsWhenRowsUnambiguous ==
  [][(pc' = "recalled" /\ RowsUnambiguous) => joints' = joints]_vars

\* a second call, on reordered panels with unambiguous rows, that found seams
C6_Witness ==
  /\ pc = "recalled"
  /\ RowsUnambiguous
  /\ Len(panels) >= 3
  /\ joints # <<>>
  /\ \E i \in 1..(Len(panels) - 1) : panels[i].x > panels[i + 1].x


\* the call has ended
Ended == pc \in {"returned", "raised"}

\* test_panel_without_available_rafter_raises: the defaults with spacing
\* 200.0 and the single panel at (3.0, 0.0)
LonePanelScenario ==
  /\ cfg = [DefaultConfig EXCEPT !.spacing = Dec(200, 0)]
  /\ specs = LonePanel

C8_SingleErrorKind ==
  pc = "raised" => raised = "LayoutValidationError"

\* spec number j is the first the duplicate check can reject: every earlier
\* spec passed all per-spec checks and j passed the key and bounds checks
ReachesDuplicateCheck(j) ==
  /\ \A i \in 1..(j - 1) : ~PerSpecViolation(i)
  /\ HasCoordinates(j)
  /\ cfg.allow_negative_coordinates \/ ~IsNegative(j)

\* C9 as stated: with allow_duplicates = false a spec whose x and y are each
\* less than coordinate_tolerance away from an earlier spec's is rejected as
\* a duplicate.
C9_RejectsWithinTolerance ==
  (BuildPanelsDone /\ ~cfg.allow_duplicates) =>
    \A j \in 1..Len(specs) :
      ( /\ ReachesDuplicateCheck(j)
        /\ \E i \in 1..(j - 1) :
             /\ Abs(specs[i].x - specs[j].x) < cfg.coordinate_tolerance
             /\ Abs(specs[i].y - specs[j].y) < cfg.coordinate_tolerance )
        => pc = "raised" /\ error = "DuplicatePanel"

\* C9 amended: with allow_duplicates = false a spec is rejected as a
\* duplicate exactly when its x and y round to the same multiples of
\* coordinate_tolerance as an earlier spec's; identical coordinates always do.
C9_RejectsSameCell ==
  (BuildPanelsDone /\ ~cfg.allow_duplicates) =>
    /\ \A j \in 1..Len(specs) :
         (ReachesDuplicateCheck(j) /\ \E i \in 1..(j - 1) : SamePosition(i, j))
           => pc = "raised" /\ error = "DuplicatePanel"
    /\ \A j \in 1..Len(specs) :
         (ReachesDuplicateCheck(j) /\ \E i \in 1..(j - 1) : specs[i] = specs[j])
           => pc = "raised" /\ error = "DuplicatePanel"
    /\ (pc = "raised" /\ error = "DuplicatePanel") =>
         \E j \in 1..Len(specs) :
           ReachesDuplicateCheck(j) /\ \E i \in 1..(j - 1) : SamePosition(i, j)

\* a spec rejected as the duplicate of an earlier one that is 0.00004 away
C9_Witness ==
  /\ pc = "raised"
  /\ error = "DuplicatePanel"
  /\ \A i, j \in 1..Len(specs) : i # j => specs[i] # specs[j]

\* longest spec sequence of the calls whose termination is checked
MaxLivePanels == 1

\* the calls of Init on at most MaxLivePanels specs
InitLive == Init /\ Len(specs) <= MaxLivePanels

\* a running call always executes its next statement
FairSpec == InitLive /\ [][Next]_vars /\ WF_vars(Next)

\* C10: every call of CalculateLayoutDetailed ends, by returning or raising;
\* both loops of BuildGrid finish.
C10_Terminates == <>Ended

---------------------------------------------------------------------------
(* the order in which BuildPanels reports violations *)

\* the error BuildPanels raises for spec number i when i is the first
\* spec with a per-spec violation: the checks run in the order missing
\* coordinate, negative coordinate, duplicate position
FirstViolationKind(i) ==
  IF ~HasCoordinates(i) THEN "MissingCoordinate"
  ELSE IF ~cfg.allow_negative_coordinates /\ IsNegative(i) THEN "NegativeCoordinate"
  ELSE "DuplicatePanel"

\* spec number i is the first one in input order with a per-spec violation
FirstViolation(i) ==
  /\ PerSpecViolation(i)
  /\ \A j \in 1..(i - 1) : ~PerSpecViolation(j)

\* C11: BuildPanels raises for the first spec in input order that has a
\* per-spec violation, with the kind found by testing that spec for a missing
\* coordinate, then a negative coordinate, then a duplicate position; it raises
\* the overlapping-panels error only when no spec of the input has a per-spec
\* violation; and the no-panels error is raised only for a call in which
\* BuildPanels returned the empty list.
C11_ViolationOrder ==
  BuildPanelsDone =>
    /\ \A i \in 1..Len(specs) :
         FirstViolation(i) => pc = "raised" /\ error = FirstViolationKind(i)
    /\ (pc = "raised" /\ error \in {"MissingCoordinate", "NegativeCoordinate",
                                    "DuplicatePanel"})
         => \E i \in 1..Len(specs) : FirstViolation(i)
    /\ (pc = "raised" /\ error = "OverlappingPanels")
         => \A i \in 1..Len(specs) : ~PerSpecViolation(i)
    /\ (pc = "raised" /\ error = "NoPanels")
         => specs = <<>> /\ panels = <<>>

\* a per-spec error raised for a spec that comes after an overlapping pair,
\* in a call whose configuration validates overlaps
C11_Witness ==
  /\ pc = "raised"
  /\ error \in {"MissingCoordinate", "NegativeCoordinate", "DuplicatePanel"}
  /\ ~cfg.allow_overlaps
  /\ \E k \in 1..Len(specs) :
       /\ FirstViolation(k)
       /\ \E i, j \in 1..(k - 1) :
            i < j /\ ~Separated(specs[i].x, specs[i].y, specs[j].x, specs[j].y)

---------------------------------------------------------------------------
(* the shape of the grid BuildGrid returns *)

\* BuildGrid has just returned positions
GridBuilt == pc = "CalculateMounts"

\* the conditions under which the shape of the grid is stated
GridPrecondition ==
  /\ cfg.spacing > 0
  /\ cfg.rafter_clearance >= 0
  /\ MinX(panels) <= MaxX(panels)

\* v has no digit beyond the fourth decimal
Exact4(v) == v % RoundQuantum = 0

\* the grid is strictly ascending in steps of exactly spacing, from a first
\* position in (min_x - 2*spacing, min_x - spacing] to a last position in
\* (max_x + spacing, max_x + 2*spacing]
GridExactlySpaced ==
  LET n == Len(positions)
      min_x == MinX(panels)
      max_x == MaxX(panels)
  IN  /\ n >= 1
      /\ \A k \in 1..(n - 1) :
           /\ positions[k] < positions[k + 1]
           /\ positions[k + 1] - positions[k] = cfg.spacing
      /\ min_x - 2 * cfg.spacing < positions[1]
      /\ positions[1] <= min_x - cfg.spacing
      /\ max_x + cfg.spacing < positions[n]
      /\ positions[n] <= max_x + 2 * cfg.spacing

---------------------------------------------------------------------------
(* joints under horizontal_gap_threshold = 0 *)

\* a call with threshold 0 and overlap validation on has returned
ZeroThresholdReturned ==
  /\ pc = "returned"
  /\ cfg.horizontal_gap_threshold = 0
  /\ ~cfg.allow_overlaps

\* panel number j starts inside panel number i of the same row: the gap
\* between them is negative
StartsInside(i, j) ==
  /\ i # j
  /\ Abs(panels[i].y - panels[j].y) <= cfg.vertical_tolerance
  /\ panels[i].x <= panels[j].x
  /\ panels[j].x < RightEdge(panels[i])

\* C13 as stated: with horizontal_gap_threshold = 0 and allow_overlaps =
\* false every successful call returns zero joints.
C13_ZeroThresholdNoJoints ==
  ZeroThresholdReturned => joints = <<>>

\* C13 amended: with horizontal_gap_threshold = 0 and allow_overlaps = false
\* a successful call returns zero joints when no panel starts inside another
\* panel of its row (the sample set); every joint it returns lies on the seam
\* of two panels of a row that overlap by at most coordinate_tolerance, and
\* such a pair of neighbours does get its joints.
C13_ZeroThresholdJointsOnTolerableOverlap ==
  ZeroThresholdReturned =>
    /\ (\A i, j \in 1..Len(panels) : ~StartsInside(i, j)) => joints = <<>>
    /\ specs = SamplePanels => joints = <<>>
    /\ \A k \in 1..Len(joints) :
         \E i, j \in 1..Len(panels) :
           /\ StartsInside(i, j)
           /\ RightEdge(panels[i]) - panels[j].x <= cfg.coordinate_tolerance
           /\ joints[k].x = RoundHalfSum4(RightEdge(panels[i]) + panels[j].x)
    /\ (\E i, j \in 1..Len(panels) : StartsInside(i, j)) => joints # <<>>

\* a successful call with threshold 0 and overlap validation on that returns
\* joints: two panels accepted thanks to the tolerance
C13_Witness ==
  /\ ZeroThresholdReturned
  /\ joints # <<>>
  /\ \E i, j \in 1..Len(panels) : StartsInside(i, j)

---------------------------------------------------------------------------
(* the grid is anchored on the leftmost panel *)

\* BuildGrid has returned: positions is the grid of the call
GridComplete ==
  \/ pc \in {"CalculateMounts", "CalculateJoints", "returned"}
  \/ MountsRaised

\* the conditions the anchoring is stated under: equal edge clearances,
\* spacing > 0, width >= 2*edge_clearance >= 0, coordinates exact to 4 decimals
AnchorPrecondition ==
  /\ cfg.rafter_clearance = cfg.mount_clearance
  /\ cfg.spacing > 0
  /\ cfg.mount_clearance >= 0
  /\ cfg.width >= 2 * cfg.mount_clearance
  /\ \A i \in 1..Len(panels) : Exact4(panels[i].x) /\ Exact4(panels[i].y)

\* the grid holds min_x + edge_clearance; it is the first rafter in the window
\* of every panel at min_x, which so fails with neither the no-rafter nor the
\* left-cantilever error; a single-panel layout that fails in the mount stage
\* fails with the right-cantilever or the span error
AnchoredOnLeftmost ==
  LET min_x  == MinX(panels)
      anchor == min_x + cfg.rafter_clearance
  IN  /\ anchor \in Range(positions)
      /\ \A i \in 1..Len(panels) :
           panels[i].x = min_x =>
             LET rafters == PositionsInRange(positions,
                              panels[i].x + cfg.mount_clearance,
                              RightEdge(panels[i]) - cfg.mount_clearance)
             IN  /\ rafters # <<>>
                 /\ rafters[1] - panels[i].x - cfg.mount_clearance = 0
                 /\ CalculatePanelMounts(cfg, panels[i], positions).error
                      \notin {"NoRafterInSpan", "LeftCantileverExceeded"}
      /\ (Len(panels) = 1 /\ MountsRaised)
           => error \in {"RightCantileverExceeded", "SpanLimitExceeded"}

\* C14 as stated: with equal rafter and mount edge clearances, spacing > 0,
\* width >= 2*edge_clearance >= 0 and coordinates exact to 4 decimals, the
\* grid is anchored on the leftmost panel.
C14_AnchoredWhenCoordinatesExact ==
  (GridComplete /\ AnchorPrecondition) => AnchoredOnLeftmost

\* C14 amended: the grid is anchored on the leftmost panel when, in addition
\* to the stated conditions, the edge clearance is exact to 4 decimals.
C14_AnchoredWhenClearanceExact ==
  (GridComplete /\ AnchorPrecondition /\ Exact4(cfg.mount_clearance))
    => AnchoredOnLeftmost

\* a single-panel layout that failed in the mount stage under the conditions
C14_Witness ==
  /\ MountsRaised
  /\ Len(panels) = 1
  /\ AnchorPrecondition
  /\ Exact4(cfg.mount_clearance)

====
